---- MODULE Spec2Model ----
(***************************************************************************)
(* Model of the Domain / Name naming classes of dweb-transport             *)
(* (src/unnamed/part_000): signing and verification of registrations and   *)
(* the prefix-backtracking path resolution of Domain.p_resolve.            *)
(*                                                                         *)
(* Strings are sequences of one-character strings, so that split('/') and  *)
(* join('/') are computed and not assumed.                                 *)
(***************************************************************************)
EXTENDS Integers, Sequences, FiniteSets, TLC

VARIABLES
    cls,          \* object -> "Domain" | "Name" | "none" (not constructed yet)
    fullnames,    \* object -> fullnames field (list of strings)
    keys,         \* object -> keys field (list of exported public keys) or Undefined
    publicurls,   \* object -> _publicurls field (list of locators) or Undefined
    expires,      \* object -> expires field or Undefined
    signatures,   \* object -> signatures field (list of {date, signature, signedby})
    map,          \* Domain -> _map, the table of children: key string -> object
    now,          \* the value Date.now() returns
    renames,      \* how many times a field of a record was assigned after
                  \* its construction
    transport,    \* how the Transports.p_set promise that the most recent
                  \* p_set started and left unawaited has settled
    calls,        \* p_resolve calls in flight: where each one is suspended
                  \* and its local variables
    last          \* the most recent call and what it returned or threw

vars == <<cls, fullnames, keys, publicurls, expires, signatures, map, now,
          renames, transport, calls, last>>

(***************************************************************************)
(* Bounds of the model.                                                    *)
(***************************************************************************)
MaxSigs == 2      \* signatures appended in one run (each register signs once)
MaxDate == 1      \* Date.now() ranges over 0..MaxDate
MaxSegs == 3      \* segments of a path handed to p_resolve
MaxRenames == 2   \* assignments to a field of a record in one run
MaxSets == 1      \* direct calls of p_set in one run

(***************************************************************************)
(* Values.                                                                 *)
(***************************************************************************)
Undefined == "undefined"          \* the value undefined, as a call's result
Absent == <<>>                    \* a field that is undefined
Is(v) == <<v>>                    \* a field that holds v
TypeError == "TypeError"
AssertionError == "AssertionError"

DomainIds == {"root", "d1"}      \* Domains built by Domain.p_new as masters
NameIds == {"n1"}                \* Name records built by p_register's wrapping
ObjIds == DomainIds \cup NameIds

Slash == "/"
Empty == <<>>                    \* the string ""

\* The segments paths are built from.
Segs == {Empty, <<"a">>, <<"b">>}

\* The names p_register is called with: a single segment, names holding a
\* '/', and the empty name.
RegNames == {<<"a">>, <<"a", "/", "a">>, <<"a", "/", "b">>, Empty}

\* Values of a Domain's fullnames field.
FullNameChoices == { << <<"/">> >>, << <<"/", "a">> >> }

\* Objects with _publicurls or _urls that p_register wraps in a Name.
RawObjs == { [publicurls |-> Absent, urls |-> Is(<<"loc1">>)],
             [publicurls |-> Is(<<"loc2">>), urls |-> Is(<<"loc1">>)] }

\* The key pair each master Domain holds (options.passphrase of p_new).
KeyPairs == {"sk_root", "sk_d1"}
KeyPairOf(d) == IF d = "root" THEN "sk_root" ELSE "sk_d1"

(***************************************************************************)
(* String.prototype.split('/') and Array.prototype.join('/').              *)
(***************************************************************************)
RECURSIVE Split(_)
Split(s) ==
    IF \A i \in 1..Len(s) : s[i] # Slash
    THEN <<s>>
    ELSE LET i == CHOOSE k \in 1..Len(s) :
                      s[k] = Slash /\ \A j \in 1..(k-1) : s[j] # Slash
         IN  <<SubSeq(s, 1, i-1)>> \o Split(SubSeq(s, i+1, Len(s)))

RECURSIVE Join(_)
Join(ss) ==
    IF Len(ss) = 0 THEN Empty
    ELSE IF Len(ss) = 1 THEN ss[1]
    ELSE ss[1] \o <<Slash>> \o Join(Tail(ss))


\* The paths p_resolve is called with: 1..MaxSegs segments joined by '/'.
\* (A string splits into at least one segment; "" is the one empty segment.)
RECURSIVE SegSeqs(_)
SegSeqs(n) ==
    IF n = 0 THEN {<<>>}
    ELSE LET shorter == SegSeqs(n - 1)
         IN  shorter \cup {Append(ss, g) : ss \in {t \in shorter : Len(t) = n - 1}, g \in Segs}

Paths == {Join(ss) : ss \in SegSeqs(MaxSegs) \ {<<>>}}

(***************************************************************************)
(* Dweb.KeyPair: signing, verification and export of the public key.       *)
(* An ideal signature: it verifies only under the public key of the pair   *)
(* that made it and only against the payload it was made over.             *)
(***************************************************************************)
signingexport(kp) == IF kp = "sk_root" THEN "pk_root" ELSE "pk_d1"

KeyPairSign(kp, signable) == [by |-> kp, over |-> signable]

KeyPairVerify(key, signable, signature) ==
    \E kp \in KeyPairs :
        signingexport(kp) = key /\ signature = KeyPairSign(kp, signable)

(***************************************************************************)
(* Objects as the methods see them (this, subdomain, registrable).         *)
(***************************************************************************)
Obj(o) ==
    [cls |-> cls[o], fullnames |-> fullnames[o], keys |-> keys[o],
     publicurls |-> publicurls[o], expires |-> expires[o],
     signatures |-> signatures[o],
     keypair |-> IF o \in DomainIds THEN KeyPairOf(o) ELSE Undefined]

\* A registrable that is a record that exists (a Domain or a Name).
Instance(o) == [instance |-> o]
IsInstance(registrable) == "instance" \in DOMAIN registrable

\* NameMixin.nameConstructor: signatures = signatures || []
nameConstructor(sigs) == IF sigs = Absent THEN <<>> ELSE sigs[1]

\* new Name({fullnames, _publicurls}): the other fields stay undefined.
NewName(fns, urls) ==
    [cls |-> "Name", fullnames |-> fns, keys |-> Absent,
     publicurls |-> urls, expires |-> Absent,
     signatures |-> nameConstructor(Absent), keypair |-> Undefined]

\* Array.prototype.includes
Includes(arr, x) == \E i \in 1..Len(arr) : arr[i] = x

\* NameMixin._signable leaving the signing Domain's names out of the payload.
signable_without_domains(this, domains, name, date) ==
    [date |-> date, name |-> name, keys |-> this.keys,
     publicurls |-> this.publicurls, expires |-> this.expires]

\* NameMixin._signable leaving the record's _publicurls out of the payload.
signable_unsigned_locators(this, domains, name, date) ==
    [date |-> date, domains |-> domains, name |-> name, keys |-> this.keys,
     publicurls |-> Absent, expires |-> this.expires]

\* NameMixin._signable: JSON.stringify of the six fields, in this order.
\* A field that is undefined is left out by JSON.stringify; Undefined
\* stands for the field left out.
signable(this, domains, name, date) ==
    [date |-> date, domains |-> domains, name |-> name, keys |-> this.keys,
     publicurls |-> this.publicurls, expires |-> this.expires]

\* Domain.sign signing over the child's own fullnames and not the signing
\* Domain's.
sign_over_child_names(this, name, subdomain) ==
    LET date == now
        sig  == KeyPairSign(this.keypair,
                            signable(subdomain, subdomain.fullnames, name, date))
    IN  [subdomain EXCEPT !.signatures =
            Append(@, [date |-> date, signature |-> sig,
                       signedby |-> signingexport(this.keypair)])]

\* Domain.sign replacing the signatures by the new one.
sign_replacing(this, name, subdomain) ==
    LET date == now
        sig  == KeyPairSign(this.keypair, signable(subdomain, this.fullnames, name, date))
    IN  [subdomain EXCEPT !.signatures =
            <<[date |-> date, signature |-> sig,
               signedby |-> signingexport(this.keypair)]>>]

\* Domain.sign: the subdomain with one signature pushed onto signatures.
sign(this, name, subdomain) ==
    LET date == now
        sig  == KeyPairSign(this.keypair, signable(subdomain, this.fullnames, name, date))
    IN  [subdomain EXCEPT !.signatures =
            Append(@, [date |-> date, signature |-> sig,
                       signedby |-> signingexport(this.keypair)])]

\* Domain.verify without the filter on this.keys: any signature that
\* verifies under its own signedby counts.
verify_unfiltered(this, name, subdomain) ==
    \E i \in 1..Len(subdomain.signatures) :
        KeyPairVerify(subdomain.signatures[i].signedby,
                      signable(subdomain, this.fullnames, name,
                               subdomain.signatures[i].date),
                      subdomain.signatures[i].signature)

\* Domain.verify: signatures.filter(signed by one of this.keys).some(verifies)
verify(this, name, subdomain) ==
    LET authorised == SelectSeq(subdomain.signatures,
                                LAMBDA sig : Includes(this.keys[1], sig.signedby))
    IN  \E i \in 1..Len(authorised) :
            KeyPairVerify(authorised[i].signedby,
                          signable(subdomain, this.fullnames, name, authorised[i].date),
                          authorised[i].signature)

(***************************************************************************)
(* KeyValueTable.p_get and SmartDict._after_fetch, the table read and the  *)
(* fetch-normalisation that p_resolve and p_set call.                      *)
(***************************************************************************)
\* The child stored under the key, or undefined.
p_get(d, key) == IF key \in DOMAIN map[d] THEN map[d][key] ELSE Undefined

\* The typed record a fetched value stands for. The table holds references
\* to records that are Domains or Names already, and those are returned as
\* they are.
after_fetch(value) == value

(***************************************************************************)
(* Domain.p_resolve.                                                       *)
(***************************************************************************)
\* The while loop with remainder.push in place of remainder.unshift.
RECURSIVE LookupLoopPush(_, _, _)
LookupLoopPush(d, pathArray, remainder) ==
    IF Len(pathArray) > 0
    THEN LET res == p_get(d, Join(pathArray))
         IN  IF res # Undefined
             THEN [res |-> res, remainder |-> remainder]
             ELSE LookupLoopPush(d, SubSeq(pathArray, 1, Len(pathArray) - 1),
                                 remainder \o <<pathArray[Len(pathArray)]>>)
    ELSE [res |-> Undefined, remainder |-> remainder]

\* The while loop: look the joined pathArray up, on a miss move its last
\* segment to the front of remainder.
RECURSIVE LookupLoop(_, _, _)
LookupLoop(d, pathArray, remainder) ==
    IF Len(pathArray) > 0
    THEN LET res == p_get(d, Join(pathArray))
         IN  IF res # Undefined
             THEN [res |-> res, remainder |-> remainder]
             ELSE LookupLoop(d, SubSeq(pathArray, 1, Len(pathArray) - 1),
                             <<pathArray[Len(pathArray)]>> \o remainder)
    ELSE [res |-> Undefined, remainder |-> remainder]

\* p_resolve taking a record for found only if it verifies under the
\* Domain and the key it was found under.
RECURSIVE p_resolve_verified(_, _)
p_resolve_verified(d, path) ==
    LET found == LookupLoop(d, Split(path), <<>>)
        key   == Join(SubSeq(Split(path), 1,
                             Len(Split(path)) - Len(found.remainder)))
    IN  IF found.res # Undefined /\ verify(Obj(d), key, Obj(found.res))
        THEN LET res == after_fetch(found.res)
             IN  IF Len(found.remainder) = 0
                 THEN res
                 ELSE IF cls[res] = "Domain"
                      THEN p_resolve_verified(res, Join(found.remainder))
                      ELSE TypeError
        ELSE Undefined

\* What the call returns: a record, undefined, or TypeError when
\* res.p_resolve is called on a record whose class has no p_resolve.
RECURSIVE p_resolve(_, _)
p_resolve(d, path) ==
    LET found == LookupLoop(d, Split(path), <<>>)
    IN  IF found.res # Undefined
        THEN LET res == after_fetch(found.res)
             IN  IF Len(found.remainder) = 0
                 THEN res
                 ELSE IF cls[res] = "Domain"
                      THEN p_resolve(res, Join(found.remainder))
                      ELSE TypeError
        ELSE Undefined

(***************************************************************************)
(* Domain.p_resolve as the sequence of things it does: the call itself,    *)
(* every p_get of the while loop with pathArray and remainder as they are  *)
(* when it is issued, and the recursive call or the TypeError at the end.  *)
(***************************************************************************)
Event(op, d, key, pathArray, remainder, res) ==
    [op |-> op, dom |-> d, key |-> key, pathArray |-> pathArray,
     remainder |-> remainder, res |-> res]

\* The while loop issuing every p_get twice.
RECURSIVE LoopTraceRetry(_, _, _)
LoopTraceRetry(d, pathArray, remainder) ==
    IF Len(pathArray) > 0
    THEN LET key == Join(pathArray)
             res == p_get(d, key)
             get == Event("get", d, key, pathArray, remainder, res)
         IN  IF res # Undefined
             THEN <<get, get>>
             ELSE <<get, get>> \o
                  LoopTraceRetry(d, SubSeq(pathArray, 1, Len(pathArray) - 1),
                                 <<pathArray[Len(pathArray)]>> \o remainder)
    ELSE <<>>

\* The while loop with remainder.push in place of remainder.unshift.
RECURSIVE LoopTracePush(_, _, _)
LoopTracePush(d, pathArray, remainder) ==
    IF Len(pathArray) > 0
    THEN LET key == Join(pathArray)
             res == p_get(d, key)
             get == Event("get", d, key, pathArray, remainder, res)
         IN  IF res # Undefined
             THEN <<get>>
             ELSE <<get>> \o
                  LoopTracePush(d, SubSeq(pathArray, 1, Len(pathArray) - 1),
                                remainder \o <<pathArray[Len(pathArray)]>>)
    ELSE <<>>

\* The while loop dropping two segments on a miss when it can.
RECURSIVE LoopTraceSkip(_, _, _)
LoopTraceSkip(d, pathArray, remainder) ==
    IF Len(pathArray) > 0
    THEN LET key == Join(pathArray)
             res == p_get(d, key)
             get == Event("get", d, key, pathArray, remainder, res)
             n   == IF Len(pathArray) > 2 THEN 2 ELSE 1
         IN  IF res # Undefined
             THEN <<get>>
             ELSE <<get>> \o
                  LoopTraceSkip(d, SubSeq(pathArray, 1, Len(pathArray) - n),
                                SubSeq(pathArray, Len(pathArray) - n + 1,
                                       Len(pathArray)) \o remainder)
    ELSE <<>>

\* The while loop: one p_get per iteration, until a hit or until pathArray
\* is empty.
RECURSIVE LoopTrace(_, _, _)
LoopTrace(d, pathArray, remainder) ==
    IF Len(pathArray) > 0
    THEN LET key == Join(pathArray)
             res == p_get(d, key)
             get == Event("get", d, key, pathArray, remainder, res)
         IN  IF res # Undefined
             THEN <<get>>
             ELSE <<get>> \o
                  LoopTrace(d, SubSeq(pathArray, 1, Len(pathArray) - 1),
                            <<pathArray[Len(pathArray)]>> \o remainder)
    ELSE <<>>

\* One call of p_resolve and the calls it makes.
RECURSIVE p_resolve_trace(_, _)
p_resolve_trace(d, path) ==
    LET call == Event("call", d, path, Split(path), <<>>, Undefined)
        loop == LoopTrace(d, Split(path), <<>>)
        hit  == loop[Len(loop)]
    IN  <<call>> \o loop \o
        (IF hit.res # Undefined /\ Len(hit.remainder) > 0
         THEN IF cls[after_fetch(hit.res)] = "Domain"
              THEN p_resolve_trace(after_fetch(hit.res), Join(hit.remainder))
              ELSE <<Event("throw", hit.res, Join(hit.remainder),
                           hit.remainder, <<>>, TypeError)>>
         ELSE <<>>)

(***************************************************************************)
(* Domain.p_resolve as an async function: a call runs until its next await *)
(* (the p_get of the loop, the _after_fetch after a hit) and other calls   *)
(* run in between. A recursive call res.p_resolve(...) is returned, so the *)
(* caller's result is the callee's: the call goes on as the next level.    *)
(***************************************************************************)
Procs == {1, 2}                  \* the p_resolve calls that may be in flight

\* The paths and names of the runs with calls in flight.
StepPaths == {<<"a", "/", "a">>, <<"a", "/", "a", "/", "a">>}
StepNames == {<<"a">>, <<"a", "/", "a">>}

\* No call: nothing has been called yet.
IdleCall ==
    [pc |-> "idle", root |-> "root", path |-> Empty, dom |-> "root",
     pathArray |-> <<>>, remainder |-> <<>>, res |-> Undefined,
     depth |-> 0, gets |-> 0]

\* The segments the level a call is at was entered with.
LevelSegs(call) == call.pathArray \o call.remainder

\* A call (or the recursive call of a level) up to its first await: path is
\* split, remainder is empty, and the loop is at its first p_get.
Enter(call, d, path) ==
    [call EXCEPT !.pc = "get", !.dom = d, !.pathArray = Split(path),
                 !.remainder = <<>>, !.res = Undefined,
                 !.depth = @ + 1]

\* The call returns (its promise resolves, or rejects with TypeError).
Return(call, res) == [call EXCEPT !.pc = "done", !.res = res]

\* await this.p_get(pathArray.join('/')) resumes: on a hit the loop breaks
\* and the call is at await _after_fetch; on a miss the last segment moves
\* to the front of remainder and the loop goes on to the next p_get, or,
\* with pathArray empty, the call returns undefined.
GetResumes(call) ==
    LET res == p_get(call.dom, Join(call.pathArray))
        n   == Len(call.pathArray)
    IN  IF res # Undefined
        THEN [call EXCEPT !.pc = "fetch", !.res = res, !.gets = @ + 1]
        ELSE LET popped == [call EXCEPT !.pathArray = SubSeq(@, 1, n - 1),
                                        !.remainder = <<call.pathArray[n]>> \o @,
                                        !.gets = @ + 1]
             IN  IF n - 1 > 0 THEN popped ELSE Return(popped, Undefined)

\* The call after _after_fetch handing the level's whole path, not the
\* remainder, to the matched record.
FetchResumesWholePath(call) ==
    LET res == after_fetch(call.res)
    IN  IF Len(call.remainder) = 0 THEN Return(call, res)
        ELSE IF cls[res] = "Domain"
             THEN Enter(call, res, Join(LevelSegs(call)))
             ELSE Return(call, TypeError)

\* await _after_fetch(res) resumes: with no remainder the call returns res,
\* otherwise it returns res.p_resolve(remainder.join('/')).
FetchResumes(call) ==
    LET res == after_fetch(call.res)
    IN  IF Len(call.remainder) = 0 THEN Return(call, res)
        ELSE IF cls[res] = "Domain"
             THEN Enter(call, res, Join(call.remainder))
             ELSE Return(call, TypeError)

(***************************************************************************)
(* The state after construction: the Domains exist (Domain.p_new with a    *)
(* pass phrase, as in p_test), nothing is registered.                      *)
(***************************************************************************)
\* Domain.p_new: keys given empty or not at all become [signingexport()].
p_new_keys(d, dataKeys) ==
    IF dataKeys = Absent \/ Len(dataKeys[1]) = 0
    THEN Is(<<signingexport(KeyPairOf(d))>>)
    ELSE dataKeys

Init ==
    /\ cls = [o \in ObjIds |-> IF o \in DomainIds THEN "Domain" ELSE "none"]
    /\ fullnames = [o \in ObjIds |->
                        IF o = "root" THEN << <<"/">> >>
                        ELSE IF o = "d1" THEN << <<"/", "a">> >>
                        ELSE <<>>]
    /\ \E dataKeys \in [DomainIds -> {Absent, Is(<<>>), Is(<<"pk_root">>)}] :
           keys = [o \in ObjIds |->
                      IF o \in DomainIds THEN p_new_keys(o, dataKeys[o]) ELSE Absent]
    /\ publicurls = [o \in ObjIds |-> Absent]
    /\ expires = [o \in ObjIds |-> Absent]
    /\ signatures = [o \in ObjIds |-> nameConstructor(Absent)]
    /\ map = [d \in DomainIds |-> <<>>]
    /\ now = 0
    /\ renames = 0
    /\ transport = "none"
    /\ calls = [p \in Procs |-> IdleCall]
    /\ last = [op |-> "new"]

TotalSigs ==
    LET n(o) == IF cls[o] = "none" THEN 0 ELSE Len(signatures[o])
    IN  n("root") + n("d1") + n("n1")

\* The records that exist.
Records == {o \in ObjIds : cls[o] # "none"}

\* A name that is not one path segment: empty, or holding a '/'.
Malformed(name) == name = Empty \/ Includes(name, Slash)

\* Domain.p_set refusing a key that is not one path segment.
p_set_one_segment(d, name, value) ==
    IF Malformed(name) THEN map
    ELSE [map EXCEPT ![d] = (name :> after_fetch(value)) @@ @]

\* Domain.p_set: this._map[name] = await _after_fetch(value). (The
\* Transports.p_set under _autoset is started and not awaited; it writes
\* to the transports, which are outside this model.)
p_set(d, name, value) == [map EXCEPT ![d] = (name :> after_fetch(value)) @@ @]

(***************************************************************************)
(* Domain.p_register, with the Domain.p_set it awaits.                     *)
(* registrable is a record that exists or an object of RawObjs; asserts    *)
(* says whether console.assert throws on a false value (Node before 10)    *)
(* or only logs (browsers, Node 10 and later).                             *)
(***************************************************************************)
p_register(d, name, registrable, asserts) ==
    LET this    == Obj(d)
        wrapped == ~IsInstance(registrable)
        r       == IF wrapped THEN CHOOSE n \in NameIds : cls[n] = "none"
                   ELSE registrable.instance
        reg     == IF wrapped
                   THEN NewName([i \in 1..Len(this.fullnames) |->
                                    Join(<<this.fullnames[i], name>>)],
                                IF registrable.publicurls # Absent
                                THEN registrable.publicurls ELSE registrable.urls)
                   ELSE Obj(registrable.instance)
        signed  == sign(this, name, reg)
        ok      == verify(this, name, signed)
        thrown  == ~ok /\ asserts
    IN  /\ wrapped => \E n \in NameIds : cls[n] = "none"
        /\ TotalSigs < MaxSigs
        /\ IF thrown /\ wrapped
           THEN UNCHANGED <<cls, fullnames, keys, publicurls, signatures>>
           ELSE /\ cls' = [cls EXCEPT ![r] = signed.cls]
                /\ fullnames' = [fullnames EXCEPT ![r] = signed.fullnames]
                /\ keys' = [keys EXCEPT ![r] = signed.keys]
                /\ publicurls' = [publicurls EXCEPT ![r] = signed.publicurls]
                /\ signatures' = [signatures EXCEPT ![r] = signed.signatures]
        /\ IF thrown
           THEN UNCHANGED map
           ELSE map' = p_set(d, name, r)
        /\ last' = [op |-> "register", dom |-> d, name |-> name,
                    arg |-> registrable, rec |-> r,
                    res |-> IF thrown THEN AssertionError ELSE Undefined]
        /\ UNCHANGED <<expires, now, renames>>

Register ==
    \E d \in DomainIds, name \in RegNames, registrable \in {Instance(o) : o \in Records} \cup RawObjs,
       asserts \in BOOLEAN :
        p_register(d, name, registrable, asserts) /\ UNCHANGED <<transport, calls>>

\* Domain.p_register on a Domain whose _autoset may be set: p_set then
\* starts Dweb.Transports.p_set and does not wait for it, so the promise
\* settles on its own, resolved or rejected, with nobody awaiting it.
\* p_set is not reached when the assert has thrown.
TransportOutcomes == {"none", "resolved", "rejected"}

RegisterAutoset ==
    \E d \in DomainIds, name \in RegNames, registrable \in {Instance(o) : o \in Records} \cup RawObjs,
       asserts \in BOOLEAN, outcome \in TransportOutcomes :
        /\ p_register(d, name, registrable, asserts)
        /\ transport' = IF last'.res = AssertionError THEN "none" ELSE outcome
        /\ UNCHANGED calls

\* A call of Domain.verify, on any Domain, name and record. It changes
\* nothing; last keeps what it returned.
Verify ==
        /\ last' \in {[op |-> "verify", res |-> verify(Obj(d), name, Obj(sub))] :
                         d \in DomainIds, name \in RegNames, sub \in Records}
        /\ UNCHANGED <<cls, fullnames, keys, publicurls, expires, signatures, map,
                       now, renames, transport, calls>>

\* A call of Domain.p_resolve, on any Domain and path. It changes nothing;
\* last keeps the Domain it was called on and what it returned or threw.
Resolve ==
        /\ last' \in {[op |-> "resolve", dom |-> d, res |-> p_resolve(d, path)] :
                         d \in DomainIds, path \in Paths}
        /\ UNCHANGED <<cls, fullnames, keys, publicurls, expires, signatures, map,
                       now, renames, transport, calls>>

\* An assignment to a Domain's fullnames field (the case the note in
\* Domain.verify is about).
Rename ==
    \E d \in DomainIds, fns \in FullNameChoices :
        /\ renames < MaxRenames
        /\ fns # fullnames[d]
        /\ fullnames' = [fullnames EXCEPT ![d] = fns]
        /\ renames' = renames + 1
        /\ last' = [op |-> "rename", dom |-> d, old |-> fullnames[d]]
        /\ UNCHANGED <<cls, keys, publicurls, expires, signatures, map, now,
                       transport, calls>>

\* An assignment to a field of a record that carries a signature: to one
\* of the fields that _signable puts into the payload (_publicurls, expires,
\* keys) or to fullnames, which it leaves out. Nothing is signed again.
SignedFields == {"publicurls", "expires", "keys"}

FieldValues(field) ==
    IF field = "publicurls" THEN {Is(<<"loc1">>), Is(<<"loc2">>)}
    ELSE IF field = "expires" THEN {Absent, Is(1)}
    ELSE IF field = "keys" THEN {Is(<<"pk_root">>), Is(<<"pk_d1">>)}
    ELSE FullNameChoices

Tamper ==
    \E o \in Records, field \in SignedFields \cup {"fullnames"} :
        \E value \in FieldValues(field) :
            /\ renames < MaxRenames
            /\ Len(signatures[o]) > 0
            /\ value # Obj(o)[field]
            /\ publicurls' = IF field = "publicurls"
                             THEN [publicurls EXCEPT ![o] = value] ELSE publicurls
            /\ expires' = IF field = "expires"
                          THEN [expires EXCEPT ![o] = value] ELSE expires
            /\ keys' = IF field = "keys" THEN [keys EXCEPT ![o] = value] ELSE keys
            /\ fullnames' = IF field = "fullnames"
                            THEN [fullnames EXCEPT ![o] = value] ELSE fullnames
            /\ renames' = renames + 1
            /\ last' = [op |-> "tamper", rec |-> o, field |-> field,
                        old |-> Obj(o)[field]]
            /\ UNCHANGED <<cls, signatures, map, now, transport, calls>>

\* A call of Domain.p_set itself: the record is put into the table under
\* the name with nothing signed (_autoset is not set).
Set ==
    \E d \in DomainIds, name \in RegNames, o \in Records :
        /\ renames < MaxSets
        /\ map' = p_set(d, name, o)
        /\ renames' = renames + 1
        /\ last' = [op |-> "set", dom |-> d, name |-> name, rec |-> o]
        /\ UNCHANGED <<cls, fullnames, keys, publicurls, expires, signatures,
                       now, transport, calls>>

\* p_set before any p_resolve call is made.
SetQuiet == (\A p \in Procs : calls[p].pc = "idle") /\ Set

\* A call of Domain.sign itself, at any time: one signature is pushed onto
\* the record and nothing else changes.
Sign ==
    \E d \in DomainIds, name \in StepNames, o \in Records :
        /\ TotalSigs < MaxSigs
        /\ signatures' = [signatures EXCEPT ![o] =
                              sign(Obj(d), name, Obj(o)).signatures]
        /\ last' = [op |-> "sign", dom |-> d, name |-> name, rec |-> o]
        /\ UNCHANGED <<cls, fullnames, keys, publicurls, expires, map, now,
                       renames, transport, calls>>

\* Time passes: Date.now() returns a later value.
Tick ==
    /\ now < MaxDate
    /\ now' = now + 1
    /\ UNCHANGED <<cls, fullnames, keys, publicurls, expires, signatures, map,
                   renames, transport, calls, last>>

Next == Register \/ Verify \/ Resolve \/ Tick

Spec == Init /\ [][Next]_vars

\* Registration and verification with the Domains' fullnames fields being
\* reassigned in between.
NextRename == Register \/ Verify \/ Tick \/ Rename

SpecRename == Init /\ [][NextRename]_vars

\* p_register before any p_resolve call is made.
RegisterQuiet ==
    /\ \A p \in Procs : calls[p].pc = "idle"
    /\ \E d \in DomainIds, name \in StepNames, registrable \in {Instance(o) : o \in Records} \cup RawObjs,
          asserts \in BOOLEAN :
           p_register(d, name, registrable, asserts)
    /\ UNCHANGED <<transport, calls>>

\* Domain.p_resolve is called on a Domain with a path.
StartResolve(p) ==
    /\ calls[p].pc = "idle"
    /\ \E d \in DomainIds, path \in StepPaths :
           calls' = [calls EXCEPT ![p] =
                        Enter([IdleCall EXCEPT !.root = d, !.path = path], d, path)]
    /\ UNCHANGED <<cls, fullnames, keys, publicurls, expires, signatures, map,
                   now, renames, transport, last>>

\* The step of GetStep keeping what it found in the Domain's own table,
\* under the whole path of the level.
GetStepCaching(p) ==
    /\ calls[p].pc = "get"
    /\ calls' = [calls EXCEPT ![p] = GetResumes(calls[p])]
    /\ map' = IF calls'[p].pc = "fetch"
              THEN [map EXCEPT ![calls[p].dom] =
                       (Join(calls[p].pathArray \o calls[p].remainder)
                           :> calls'[p].res) @@ @]
              ELSE map
    /\ UNCHANGED <<cls, fullnames, keys, publicurls, expires, signatures,
                   now, renames, transport, last>>

\* The p_get a call awaits has resolved and the call runs to its next await.
GetStep(p) ==
    /\ calls[p].pc = "get"
    /\ calls' = [calls EXCEPT ![p] = GetResumes(calls[p])]
    /\ UNCHANGED <<cls, fullnames, keys, publicurls, expires, signatures, map,
                   now, renames, transport, last>>

\* The _after_fetch a call awaits has resolved and the call runs on.
FetchStep(p) ==
    /\ calls[p].pc = "fetch"
    /\ calls' = [calls EXCEPT ![p] = FetchResumes(calls[p])]
    /\ UNCHANGED <<cls, fullnames, keys, publicurls, expires, signatures, map,
                   now, renames, transport, last>>

Resume(p) == GetStep(p) \/ FetchStep(p)

NextCalls == RegisterQuiet \/ \E p \in Procs : StartResolve(p) \/ Resume(p)

\* A promise that has resolved has its continuation run: a call that can
\* resume does.
SpecCalls == Init /\ [][NextCalls]_vars /\ \A p \in Procs : WF_vars(Resume(p))

\* Registration with fields of signed records being reassigned after.
NextTamper == Register \/ Tamper

SpecTamper == Init /\ [][NextTamper]_vars

\* Records put into tables by p_register, which signs, and by p_set, which
\* does not, then a p_resolve call with signatures being added while it is
\* in flight and after it.
NextUnsigned ==
    RegisterQuiet \/ SetQuiet \/ Sign \/ StartResolve(1) \/ Resume(1)

SpecUnsigned == Init /\ [][NextUnsigned]_vars

\* Registration on Domains that write through to the transports.
NextStore == RegisterAutoset \/ Verify

SpecStore == Init /\ [][NextStore]_vars

\* Registration and resolution only: the tables p_resolve reads and the
\* calls of it.
NextLookup == Register \/ Resolve

SpecLookup == Init /\ [][NextLookup]_vars

(***************************************************************************)
(* Properties of signing, verification and registration.                   *)
(***************************************************************************)
\* The keys a Domain verifies with, as a set.
KeySet(d) == {keys[d][1][k] : k \in 1..Len(keys[d][1])}

\* A register call has just returned to its caller (nothing was thrown).
Registered == last.op = "register" /\ last.res = Undefined

\* C1 (round-trip signing): after register(D, name, R) has returned, where
\* D's own exported signing key is one of D's keys, the record stored under
\* D.children[name] is the registered one and verify(D, name, it) is true.
C1_RoundTrip ==
    (Registered /\ signingexport(KeyPairOf(last.dom)) \in KeySet(last.dom))
    => /\ p_get(last.dom, last.name) = last.rec
       /\ verify(Obj(last.dom), last.name, Obj(p_get(last.dom, last.name)))

\* C1 happens: a bare locator set was wrapped, signed and stored by a
\* Domain that holds its own key, and a Domain record was registered too.
C1_Witness ==
    /\ Registered
    /\ signingexport(KeyPairOf(last.dom)) \in KeySet(last.dom)
    /\ ~IsInstance(last.arg)
    /\ cls[last.rec] = "Name"
    /\ verify(Obj(last.dom), last.name, Obj(last.rec))
    /\ \E d \in DomainIds, n \in DOMAIN map[last.dom] :
           map[last.dom][n] = d /\ verify(Obj(last.dom), n, Obj(d))

\* Signature i of record sub is valid for Domain d and name: its signer is
\* one of d's keys, and it is the signer's signature over the payload made
\* from d's fullnames, the name, the record's signed fields and its date.
ValidSignature(d, name, sub, i) ==
    LET sig == signatures[sub][i]
    IN  /\ sig.signedby \in KeySet(d)
        /\ \E kp \in KeyPairs :
              /\ signingexport(kp) = sig.signedby
              /\ sig.signature.by = kp
              /\ sig.signature.over =
                    [date |-> sig.date, domains |-> fullnames[d], name |-> name,
                     keys |-> keys[sub], publicurls |-> publicurls[sub],
                     expires |-> expires[sub]]

Renamed == Obj(last.dom)
BeforeRename == [Obj(last.dom) EXCEPT !.fullnames = last.old]
OnlySignature(sub, i) == [Obj(sub) EXCEPT !.signatures = <<signatures[sub][i]>>]

\* C6 as stated: after a Domain's fullnames has changed to a different
\* value, verify is false for every child and name it was true for.
C6_RenameInvalidates ==
    last.op = "rename"
    => \A name \in RegNames, sub \in Records :
          verify(BeforeRename, name, Obj(sub)) => ~verify(Renamed, name, Obj(sub))

\* C6 as amended: after a Domain's fullnames has changed to a different
\* value, no signature that verified under the old fullnames verifies any
\* longer, and verify is true only for a child that carries a signature made
\* over the new fullnames value.
C6_RenameInvalidatesSignatures ==
    last.op = "rename"
    => \A name \in RegNames, sub \in Records :
          /\ \A i \in 1..Len(signatures[sub]) :
                verify(BeforeRename, name, OnlySignature(sub, i))
                => ~verify(Renamed, name, OnlySignature(sub, i))
          /\ verify(Renamed, name, Obj(sub))
                => \E i \in 1..Len(signatures[sub]) :
                      signatures[sub][i].signature.over.domains = fullnames[last.dom]

\* C6 happens: a child that verified under the Domain before its fullnames
\* changed does not verify after.
C6_Witness ==
    /\ last.op = "rename"
    /\ \E name \in RegNames, sub \in Records :
          verify(BeforeRename, name, Obj(sub)) /\ ~verify(Renamed, name, Obj(sub))

\* C7 as stated: when the verify that p_register runs after signing is
\* false, the call ends in a fault thrown to the caller and the child is
\* not in the Domain's table.
C7_IntegrityFault ==
    (last.op = "register" /\ ~verify(Obj(last.dom), last.name, Obj(last.rec)))
    => /\ last.res = AssertionError
       /\ p_get(last.dom, last.name) # last.rec

Under(key, rest) == key \o <<Slash>> \o rest

\* The key's segments are the first segments of the path.
SegPrefix(key, path) ==
    LET ks == Split(key)
        ps == Split(path)
    IN  Len(ks) <= Len(ps) /\ SubSeq(ps, 1, Len(ks)) = ks

\* Domain d holds a key that is a longer prefix of the path than key.
Shadowed(d, key, path) ==
    \E k \in DOMAIN map[d] :
        SegPrefix(k, path) /\ Len(Split(k)) > Len(Split(key))

\* The locators p_register gives the Name it wraps a registrable in.
WrappedUrls(registrable) ==
    IF registrable.publicurls # Absent THEN registrable.publicurls
    ELSE registrable.urls

\* A leaf that was just registered from bare locators resolves, by its
\* name, to the Name record holding the locators it was registered with.
LeafKeepsLocators ==
    (Registered /\ ~IsInstance(last.arg))
    => LET res == p_resolve(last.dom, last.name)
       IN  /\ res = last.rec
           /\ cls[res] = "Name"
           /\ publicurls[res] = WrappedUrls(last.arg)

\* C2 as stated: where key1 is registered as a Domain under d and key2 is
\* registered beneath that Domain, resolve(d, key1/key2) is the record found
\* by looking key1 up in d and key2 in the result; and a registered leaf
\* resolves to its record with its locators.
C2_LongestPrefix ==
    /\ \A d \in DomainIds : \A key1 \in DOMAIN map[d] :
          cls[map[d][key1]] = "Domain"
          => \A key2 \in DOMAIN map[map[d][key1]] :
                p_resolve(d, Under(key1, key2)) = p_get(p_get(d, key1), key2)
    /\ LeafKeepsLocators

\* C2 as amended: the same, provided d holds no key that is a longer prefix
\* of the path than key1 (such as the whole path): the longest registered
\* prefix is the one resolve descends into.
C2_LongestPrefixUnshadowed ==
    /\ \A d \in DomainIds : \A key1 \in DOMAIN map[d] :
          cls[map[d][key1]] = "Domain"
          => \A key2 \in DOMAIN map[map[d][key1]] :
                ~Shadowed(d, key1, Under(key1, key2))
                => p_resolve(d, Under(key1, key2)) = p_get(p_get(d, key1), key2)
    /\ LeafKeepsLocators

\* C2 happens: a two-segment name is registered as a Domain, a leaf Name is
\* registered beneath it under a one-segment name, and a resolve call on the
\* three-segment path has returned the leaf.
C2_Witness ==
    /\ last.op = "resolve"
    /\ \E key1 \in DOMAIN map[last.dom] :
          /\ Len(Split(key1)) = 2
          /\ cls[map[last.dom][key1]] = "Domain"
          /\ \E key2 \in DOMAIN map[map[last.dom][key1]] :
                /\ Len(Split(key2)) = 1
                /\ cls[map[map[last.dom][key1]][key2]] = "Name"
                /\ p_resolve(last.dom, Under(key1, key2)) = map[map[last.dom][key1]][key2]
                /\ last.res = map[map[last.dom][key1]][key2]
                /\ publicurls[last.res] # Absent

\* Manual descent: from d, look each segment up in the record reached.
RECURSIVE Descend(_, _)
Descend(d, segs) ==
    IF Len(segs) = 0 THEN d
    ELSE IF cls[d] = "Domain" /\ p_get(d, segs[1]) # Undefined
         THEN Descend(p_get(d, segs[1]), Tail(segs))
         ELSE Undefined

\* The segment is part of no key of any Domain's table.
RegisteredNowhere(seg) ==
    \A d \in DomainIds : \A key \in DOMAIN map[d] :
        \A i \in 1..Len(Split(key)) : Split(key)[i] # seg

\* C3 as stated: for a chain of one-segment registrations from a Domain,
\* the path with any one segment replaced by a name registered nowhere
\* resolves to undefined.
C3_MissIsolation ==
    \A d \in DomainIds, segs \in SegSeqs(MaxSegs) \ {<<>>} :
        Descend(d, segs) # Undefined
        => \A i \in 1..Len(segs), seg \in Segs :
              RegisteredNowhere(seg)
              => p_resolve(d, Join([segs EXCEPT ![i] = seg])) = Undefined

\* C4 as stated: no resolve call ends in an error.
C4_NotFoundIsValue == last.op = "resolve" => last.res # TypeError

\* C9 as stated: the empty path resolves to the Domain it is resolved in.
C9_EmptyPathIsSelf == \A d \in DomainIds : p_resolve(d, Empty) = d

\* C10 as stated: a path with '/' put in front resolves as the path does.
C10_LeadingSlash ==
    \A d \in DomainIds, path \in Paths :
        (path = Empty \/ path[1] # Slash)
        => p_resolve(d, <<Slash>> \o path) = p_resolve(d, path)

\* C16 as stated: every record in a Domain's table under a name carries a
\* signature that verifies under that Domain and name (no fullnames or keys
\* field is reassigned in these runs).
C16_PublishedImpliesSigned ==
    \A d \in DomainIds : \A n \in DOMAIN map[d] :
        verify(Obj(d), n, Obj(map[d][n]))

(***************************************************************************)
(* Properties of the lookup loop and the recursion of p_resolve.           *)
(***************************************************************************)
\* The events of a trace that are of one kind.
Of(op, trace) == SelectSeq(trace, LAMBDA e : e.op = op)

\* The number of p_get calls a p_resolve call makes, its recursion included.
Gets(d, path) == Len(Of("get", p_resolve_trace(d, path)))

SegCount(path) == Len(Split(path))

\* C11 as stated: a resolve call on a path of N segments makes at most N
\* table lookups in all, the lookups of the recursive calls included.
C11_AtMostN ==
    \A d \in DomainIds, path \in Paths : Gets(d, path) <= SegCount(path)

\* C11 as amended: every level makes at most as many lookups as its own path
\* has segments, and a call on a path of N segments makes at most
\* N + (N-1) + ... + 1 = N(N+1)/2 lookups in all.
C11_AtMostNPerLevel ==
    \A d \in DomainIds, path \in Paths :
        LET trace == p_resolve_trace(d, path)
            levels == Of("call", trace)
            N     == SegCount(path)
        IN  /\ \A i \in 1..Len(levels) :
                  Len(LoopTrace(levels[i].dom, levels[i].pathArray, <<>>))
                     <= Len(levels[i].pathArray)
            /\ 2 * Gets(d, path) <= N * (N + 1)

\* C11 happens: a resolve call has returned a record for a path of two
\* segments after three lookups (two at the first level, one at the next).
C11_Witness ==
    /\ last.op = "resolve" /\ last.res \in Records
    /\ \E path \in Paths :
          /\ SegCount(path) = 2
          /\ p_resolve(last.dom, path) = last.res
          /\ Gets(last.dom, path) = 3

\* C14 (most specific name wins): at one level the keys are looked up in
\* order of strictly decreasing prefix length, the whole path first and one
\* trailing segment less after every miss, and the loop stops at the first
\* hit; so of the keys of the Domain that are prefixes of the path, the
\* record under the longest is the one the loop ends with.
C14_MostSpecificWins ==
    \A d \in DomainIds, path \in Paths :
        LET segs == Split(path)
            N    == Len(segs)
            loop == LoopTrace(d, segs, <<>>)
            hit  == loop[Len(loop)]
        IN  /\ Len(loop) \in 1..N
            /\ loop[1].key = path
            /\ \A i \in 1..Len(loop) :
                  /\ loop[i].key = Join(SubSeq(segs, 1, N - i + 1))
                  /\ loop[i].res = p_get(d, loop[i].key)
                  /\ i < Len(loop) => loop[i].res = Undefined
            /\ hit.res = Undefined => Len(loop) = N
            /\ hit.res = LookupLoop(d, segs, <<>>).res
            /\ \A k \in DOMAIN map[d] :
                  SegPrefix(k, path)
                  => /\ hit.res # Undefined
                     /\ Len(Split(k)) <= Len(Split(hit.key))
                     /\ ~Shadowed(d, hit.key, path)

\* C14 happens: a Domain holds two keys that are both prefixes of a path,
\* under different records, and a resolve call on the path has returned the
\* record under the longer one.
C14_Witness ==
    /\ last.op = "resolve"
    /\ \E path \in Paths : \E k1, k2 \in DOMAIN map[last.dom] :
          /\ SegPrefix(k1, path) /\ SegPrefix(k2, path)
          /\ Len(Split(k1)) > Len(Split(k2))
          /\ map[last.dom][k1] # map[last.dom][k2]
          /\ k1 = path
          /\ p_resolve(last.dom, path) = map[last.dom][k1]
          /\ last.res = map[last.dom][k1]

\* C15 (remainder preservation): at every lookup of every level the
\* candidate prefix followed by the remainder is the level's segment
\* sequence, in order; after a hit with a remainder left the next thing done
\* is the call of p_resolve on the matched record with the remainder joined
\* by '/', and after a hit the level issues no further lookup.
C15_RemainderPreserved ==
    \A d \in DomainIds, path \in Paths :
        LET trace == p_resolve_trace(d, path)
            levels == Of("call", trace)
        IN  /\ \A c \in 1..Len(levels) :
                  LET loop == LoopTrace(levels[c].dom, levels[c].pathArray, <<>>)
                  IN  \A i \in 1..Len(loop) :
                          /\ loop[i].pathArray \o loop[i].remainder = levels[c].pathArray
                          /\ loop[i].key = Join(loop[i].pathArray)
            /\ trace[1].op = "call" /\ trace[1].dom = d /\ trace[1].key = path
            /\ \A i \in 1..Len(trace) :
                  (trace[i].op = "get" /\ trace[i].res # Undefined)
                  => IF Len(trace[i].remainder) = 0
                     THEN i = Len(trace)
                     ELSE /\ i < Len(trace)
                          /\ trace[i + 1].op \in {"call", "throw"}
                          /\ trace[i + 1].dom = trace[i].res
                          /\ trace[i + 1].key = Join(trace[i].remainder)
                          /\ trace[i + 1].pathArray = trace[i].remainder
            /\ \A i \in 2..Len(trace) :
                  trace[i].op = "get"
                  => /\ trace[i - 1].op \in {"get", "call"}
                     /\ trace[i - 1].op = "get" => trace[i - 1].res = Undefined
                     /\ trace[i].dom = trace[i - 1].dom

\* C15 happens: a resolve call missed twice, hit with a remainder of two
\* different segments, called p_resolve on the matched Domain with them and
\* has returned the record found there.
C15_Witness ==
    /\ last.op = "resolve" /\ last.res \in Records
    /\ \E path \in Paths :
          LET trace == p_resolve_trace(last.dom, path)
          IN  /\ p_resolve(last.dom, path) = last.res
              /\ \E i \in 1..(Len(trace) - 1) :
                    /\ trace[i].op = "get" /\ trace[i].res # Undefined
                    /\ Len(trace[i].remainder) = 2
                    /\ trace[i].remainder[1] # trace[i].remainder[2]
                    /\ trace[i + 1].op = "call"
                    /\ trace[i + 1].key = Join(trace[i].remainder)

(***************************************************************************)
(* Properties of the signatures list.                                      *)
(***************************************************************************)
\* The step is a call of p_register or of sign (a Tick and a step of a
\* p_resolve call in flight leave last as it is).
SigningStep ==
    last'.op \in {"register", "sign"} /\ now' = now /\ calls' = calls

\* The entry Domain.sign pushes for Domain d signing record o under name,
\* with o's signed fields as given.
SignatureEntry(d, name, o) ==
    [date |-> now,
     signature |-> KeyPairSign(KeyPairOf(d),
                      [date |-> now, domains |-> fullnames[d], name |-> name,
                       keys |-> keys'[o], publicurls |-> publicurls'[o],
                       expires |-> expires'[o]]),
     signedby |-> signingexport(KeyPairOf(d))]

\* C12 (signatures are append-only): in every step every record's earlier
\* signatures stay, unchanged and in place; only a sign or register step
\* changes a signatures list, and it appends exactly one entry, made by the
\* signing Domain's key pair and carrying that Domain's exported public key,
\* to the record it signs; p_set and the steps of resolve change none.
C12_AppendOnly ==
    [][ /\ \A o \in ObjIds :
              /\ Len(signatures'[o]) >= Len(signatures[o])
              /\ SubSeq(signatures'[o], 1, Len(signatures[o])) = signatures[o]
              /\ signatures'[o] # signatures[o]
                    => SigningStep /\ o = last'.rec
        /\ (SigningStep /\ cls'[last'.rec] # "none")
              => signatures'[last'.rec] =
                    Append(signatures[last'.rec],
                           SignatureEntry(last'.dom, last'.name, last'.rec))
      ]_vars

\* C12 happens: a record registered under one Domain has been registered
\* again under another and carries both signatures, the earlier one first.
C12_Witness ==
    /\ Registered
    /\ Len(signatures[last.rec]) = 2
    /\ signatures[last.rec][2].signedby = signingexport(KeyPairOf(last.dom))
    /\ signatures[last.rec][1].signedby # signatures[last.rec][2].signedby
    /\ \E d \in DomainIds \ {last.dom} : \E n \in DOMAIN map[d] : map[d][n] = last.rec

(***************************************************************************)
(* Properties of the write to the table.                                   *)
(***************************************************************************)
\* The error a failed write of the transports' table rejects with.
WriteError == "WriteError"

\* C13 as stated: when the write to the external table fails, the register
\* call ends in that write error, the signature it appended is still on the
\* record, and the record is not under the Domain's children[name].
C13_WriteErrorSurfaced ==
    (last.op = "register" /\ transport = "rejected")
    => /\ last.res = WriteError
       /\ p_get(last.dom, last.name) # last.rec
       /\ Len(signatures[last.rec]) > 0
       /\ signatures[last.rec][Len(signatures[last.rec])].signedby
             = signingexport(KeyPairOf(last.dom))

(***************************************************************************)
(* Properties of p_resolve calls in flight.                                *)
(***************************************************************************)
InFlight(p) == calls[p].pc \in {"get", "fetch"}

\* C17 (resolution always terminates): a level entered by recursion has
\* fewer segments than the level that called it, so a call is never deeper
\* than its path has segments, and every call in flight returns, whatever
\* the tables hold, Domains stored in their own tables included.
C17_Terminates ==
    /\ [](\A p \in Procs :
            calls[p].pc # "idle"
            => /\ calls[p].depth \in 1..SegCount(calls[p].path)
               /\ Len(LevelSegs(calls[p]))
                     <= SegCount(calls[p].path) - (calls[p].depth - 1))
    /\ [][\A p \in Procs :
             calls'[p].depth > calls[p].depth /\ calls[p].depth > 0
             => /\ calls'[p].depth = calls[p].depth + 1
                /\ Len(LevelSegs(calls'[p])) < Len(LevelSegs(calls[p]))]_vars
    /\ \A p \in Procs : InFlight(p) ~> calls[p].pc = "done"

\* C17 happens: a call on a path of three segments has returned from its
\* third level, in a Domain that is stored in its own table.
C17_Witness ==
    \E p \in Procs :
        /\ calls[p].pc = "done" /\ calls[p].depth = 3
        /\ SegCount(calls[p].path) = 3
        /\ \E k \in DOMAIN map[calls[p].root] :
              map[calls[p].root][k] = calls[p].root

\* C18 (concurrent resolves are independent): a step of a p_resolve call
\* changes no table, no fullnames, no keys and no signatures, and every
\* call, however its steps are interleaved with another call's, returns
\* what the call made alone returns.
C18_Independent ==
    /\ [](\A p \in Procs :
            calls[p].pc = "done"
            => calls[p].res = p_resolve(calls[p].root, calls[p].path))
    /\ [][calls' # calls
          => UNCHANGED <<cls, fullnames, keys, publicurls, expires,
                         signatures, map>>]_vars

\* C18 happens: two calls on different paths are suspended at the same
\* time, both in their second level, and one that has returned a record
\* did so while the other was in flight.
C18_Witness ==
    \/ /\ calls[1].pc = "fetch" /\ calls[1].depth = 2
       /\ calls[2].pc = "get" /\ calls[2].depth = 2
       /\ calls[1].path # calls[2].path
    \/ /\ calls[1].pc = "done" /\ calls[1].res \in Records
       /\ calls[2].pc = "fetch" /\ calls[2].depth = 2
       /\ calls[1].path # calls[2].path /\ calls[1].root = calls[2].root

(***************************************************************************)
(* Properties of verify after a field of a signed record was reassigned.   *)
(***************************************************************************)
\* A record as it was before the assignment that last records.
BeforeTamper(x) ==
    IF x = last.rec THEN [Obj(x) EXCEPT ![last.field] = last.old] ELSE Obj(x)

WithOnly(record, i) == [record EXCEPT !.signatures = <<record.signatures[i]>>]

\* C19 as stated: after a signed field of a registered child is changed to
\* a different value verify is false where it was true; verify of a child
\* just registered is false under every other name; and a change of a
\* record's fullnames changes no result of verify on it.
C19_TamperDetected ==
    /\ (last.op = "tamper" /\ last.field \in SignedFields)
          => \A d \in DomainIds, name \in RegNames :
                verify(BeforeTamper(d), name, BeforeTamper(last.rec))
                => ~verify(Obj(d), name, Obj(last.rec))
    /\ Registered
          => \A other \in RegNames \ {last.name} :
                ~verify(Obj(last.dom), other, Obj(last.rec))
    /\ (last.op = "tamper" /\ last.field = "fullnames")
          => \A d \in DomainIds, name \in RegNames :
                verify(Obj(d), name, Obj(last.rec))
                   = verify(BeforeTamper(d), name, BeforeTamper(last.rec))

\* C19 as amended: after a signed field of a registered child is changed to
\* a different value, no signature that verified before verifies, and
\* verify is true only if the child carries a signature made over the new
\* value; no signature verifies under two names, and verify under a name is
\* true only if the child carries a signature made over that name; a change
\* of the fullnames of a child that is not the verifying Domain itself
\* changes no result of verify.
C19_TamperInvalidatesSignatures ==
    /\ (last.op = "tamper" /\ last.field \in SignedFields)
          => \A d \in DomainIds, name \in RegNames :
                /\ \A i \in 1..Len(signatures[last.rec]) :
                      verify(BeforeTamper(d), name, WithOnly(BeforeTamper(last.rec), i))
                      => ~verify(Obj(d), name, WithOnly(Obj(last.rec), i))
                /\ verify(Obj(d), name, Obj(last.rec))
                      => \E i \in 1..Len(signatures[last.rec]) :
                            signatures[last.rec][i].signature.over[last.field]
                               = Obj(last.rec)[last.field]
    /\ \A d \in DomainIds, sub \in Records, name \in RegNames :
          /\ \A i \in 1..Len(signatures[sub]) :
                verify(Obj(d), name, WithOnly(Obj(sub), i))
                => \A other \in RegNames \ {name} :
                      ~verify(Obj(d), other, WithOnly(Obj(sub), i))
          /\ verify(Obj(d), name, Obj(sub))
                => \E i \in 1..Len(signatures[sub]) :
                      signatures[sub][i].signature.over.name = name
    /\ (last.op = "tamper" /\ last.field = "fullnames")
          => \A d \in DomainIds \ {last.rec}, name \in RegNames :
                verify(Obj(d), name, Obj(last.rec))
                   = verify(BeforeTamper(d), name, BeforeTamper(last.rec))

\* C19 happens: a child that verified under another Domain and a name had
\* one of its signed fields changed and does not verify any more, and it
\* does not verify under another name either.
C19_Witness ==
    /\ last.op = "tamper" /\ last.field \in SignedFields
    /\ \E d \in DomainIds \ {last.rec}, name \in RegNames :
          /\ verify(BeforeTamper(d), name, BeforeTamper(last.rec))
          /\ ~verify(Obj(d), name, Obj(last.rec))
          /\ \E other \in RegNames \ {name} :
                ~verify(BeforeTamper(d), other, BeforeTamper(last.rec))

(***************************************************************************)
(* Properties of p_resolve on records without a valid signature.           *)
(***************************************************************************)
\* C20 (resolution is independent of signatures): a p_resolve call returns
\* what p_resolve gives in every later state that differs only in
\* signatures, and every record in a Domain's table is what p_resolve
\* returns for its key, whether it carries a signature that verifies under
\* that Domain and key, a signature that does not, or none.
C20_SignatureBlind ==
    /\ calls[1].pc = "done"
          => calls[1].res = p_resolve(calls[1].root, calls[1].path)
    /\ \A d \in DomainIds : \A key \in DOMAIN map[d] :
          p_resolve(d, key) = map[d][key]

\* C20 happens: a resolve call has returned a record that p_set put into
\* the table unsigned, after it returned the record was signed, with a
\* signature that does not verify where the record is stored, and another
\* record is in a table with a signature that verifies.
C20_Witness ==
    /\ calls[1].pc = "done" /\ calls[1].res \in Records
    /\ last.op = "sign" /\ last.rec = calls[1].res
    /\ Len(signatures[calls[1].res]) = 1
    /\ \A d \in DomainIds : \A key \in DOMAIN map[d] :
          map[d][key] = calls[1].res => ~verify(Obj(d), key, Obj(map[d][key]))
    /\ \E d \in DomainIds : \E key \in DOMAIN map[d] :
          /\ verify(Obj(d), key, Obj(map[d][key]))
          /\ p_resolve(d, key) = map[d][key]

====
